---- MODULE Spec2Model ----
(***************************************************************************)
(* Model of the surrogate (src/surrogate/src/main.rs): a poller that reads *)
(* the key-change log of a remote source over RPC, routes every entry by   *)
(* its 5-byte key prefix, fetches the record for create/update entries and *)
(* hands (model, method, value) items over a bounded channel to a writer   *)
(* task that applies them to three PostgreSQL tables.                      *)
(*                                                                         *)
(* Integer widths are scaled: a byte has ByteBase values instead of 256,   *)
(* so that the 8-byte id (u64) and its signed reading (i64) keep their     *)
(* relation (I64Max = U64Mod / 2 - 1) inside TLC's integer range.          *)
(* The store is an available database: connection wiring is outside the   *)
(* modelled pipeline.                                                      *)
(***************************************************************************)
EXTENDS Integers, Sequences, FiniteSets, TLC

\* ------------------------------------------------------------------ bounds
ByteBase == 2
\* longest key suffix (the bytes after the prefix) the remote source logs
MaxSuffixLen == 9
MaxLog == 2

\* --------------------------------------------------------------- constants
PrefixLen == 5
IdBytes == 8
ChannelCapacity == 100

U64Mod == ByteBase ^ IdBytes
U64Max == U64Mod - 1
I64Max == (U64Mod \div 2) - 1

PREFIX_SUBSPACE_KEY == <<0, 0, 0, 0, 1>>
PREFIX_ARTICLE_KEY == <<0, 0, 0, 1, 0>>
PREFIX_COMMENT_KEY == <<0, 0, 0, 1, 1>>
OtherPrefix == <<1, 0, 0, 0, 0>>

Method == {"Create", "Update", "Delete"}
Models == {"subspace", "article", "comment"}

None == [kind |-> "none"]

\* ------------------------------------------------------------ pure helpers
Min(a, b) == IF a < b THEN a ELSE b
Max(a, b) == IF a > b THEN a ELSE b

RECURSIVE from_be_bytes(_)
from_be_bytes(a) ==
    IF a = <<>> THEN 0
    ELSE from_be_bytes(SubSeq(a, 1, Len(a) - 1)) * ByteBase + a[Len(a)]

vec_to_u64PadHigh(v) ==
    LET len == Min(Len(v), IdBytes)
        array == [i \in 1..IdBytes |->
                    IF i > IdBytes - len THEN v[i - (IdBytes - len)] ELSE 0]
    IN  from_be_bytes(array)

\* array = [0u8; 8]; array[..len] = v[..len]; u64::from_be_bytes(array)
vec_to_u64(v) ==
    LET len == Min(Len(v), IdBytes)
        array == [i \in 1..IdBytes |-> IF i <= len THEN v[i] ELSE 0]
    IN  from_be_bytes(array)

RECURSIVE to_be_bytes(_, _)
to_be_bytes(n, k) ==
    IF k = 0 THEN <<>>
    ELSE Append(to_be_bytes(n \div ByteBase, k - 1), n % ByteBase)

\* x as i64, for x: u64
AsI64(n) == IF n > I64Max THEN n - U64Mod ELSE n

\* serde_json::Value::as_i64 on a number built from a u64
as_i64(value) ==
    IF value.kind = "number" /\ value.n <= I64Max
    THEN [kind |-> "some", n |-> value.n]
    ELSE None

\* serde_json::to_value(&record) / serde_json::to_value(&id)
to_value_record(rec) == [kind |-> "object", rec |-> rec]
to_value_id(id) == [kind |-> "number", n |-> id]

\* the arm of `match slice_to_array(&key[..5]).unwrap()` taken for a key of
\* at least 5 bytes
ClassifyDefaultSubspace(key) ==
    LET p == SubSeq(key, 1, PrefixLen)
    IN  IF p = PREFIX_SUBSPACE_KEY THEN "subspace"
        ELSE IF p = PREFIX_ARTICLE_KEY THEN "article"
        ELSE IF p = PREFIX_COMMENT_KEY THEN "comment"
        ELSE "subspace"

Classify(key) ==
    LET p == SubSeq(key, 1, PrefixLen)
    IN  IF p = PREFIX_SUBSPACE_KEY THEN "subspace"
        ELSE IF p = PREFIX_ARTICLE_KEY THEN "article"
        ELSE IF p = PREFIX_COMMENT_KEY THEN "comment"
        ELSE "none"

KeyId(key) == vec_to_u64(SubSeq(key, PrefixLen + 1, Len(key)))

Suffix(n) == to_be_bytes(n, IdBytes)

\* ------------------------------------------------- the remote source (RPC)
\* Keys the remote source logs: the three entity key spaces, a key space the
\* surrogate does not know, and a key shorter than a prefix.
\* the entity key space of a key at the remote source
KeySpace(key) ==
    IF Len(key) < PrefixLen THEN "none"
    ELSE LET p == SubSeq(key, 1, PrefixLen)
         IN  IF p = PREFIX_SUBSPACE_KEY THEN "subspace"
             ELSE IF p = PREFIX_ARTICLE_KEY THEN "article"
             ELSE IF p = PREFIX_COMMENT_KEY THEN "comment"
             ELSE "none"

Keys ==
    { PREFIX_SUBSPACE_KEY \o Suffix(1),
      PREFIX_SUBSPACE_KEY \o Suffix(U64Max),
      PREFIX_ARTICLE_KEY \o Suffix(1),
      PREFIX_COMMENT_KEY \o Suffix(1),
      OtherPrefix \o Suffix(0),
      <<0, 0, 0>> }

VeSubspace(id) == { [id |-> id, title |-> "t1", slug |-> "s1"] }
VeArticle(id) ==
    { [id |-> id, title |-> "t1", content |-> "c1", subspace_id |-> s] :
        s \in {1} }
VeComment(id) ==
    { [id |-> id, content |-> "c1", author_nickname |-> "n1", post_id |-> a] :
        a \in {1} }

RecordsOf(model, id) ==
    CASE model = "subspace" -> VeSubspace(id)
      [] model = "article" -> VeArticle(id)
      [] model = "comment" -> VeComment(id)

\* responses of nucleus_post(avs_id, "get_from_common_key", hex(sentinel))
PollFailures == {"transport", "not_str", "bad_hex", "bad_envelope", "err_result"}
PollResponses == {"ok"} \cup PollFailures
\* responses of nucleus_get(avs_id, "get_<model>", hex(id))
FetchFailures == {"transport", "not_str", "bad_hex", "bad_envelope"}

VARIABLES
    remoteLog,   \* the remote change log: <<[reqnum, method, key], ...>>
    remote,      \* the remote records: [model -> set of records]
    sentinel,    \* main: let mut sentinel: u64
    pc,          \* main: position of the poller task
    batch,       \* main: the decoded entries of the current cycle (res?)
    idx,         \* main: index in batch of the entry of the for loop
    pending,     \* main: the item built for tx.send, or None
    queue,       \* mpsc::channel(100): items in flight
    writer,      \* the spawned writer task: "running" or "panicked"
    store,       \* PostgreSQL: [subspaces, articles, comments] sets of rows
    lastPoll,    \* history: the latest poll request (its cursor and response)
                 \* and the greatest cursor any poll request has sent
    routed,      \* history: every entry the for loop has taken, with outcome
    enqueued,    \* history: every item tx.send has delivered, with its entry
    handled      \* history: every item the writer has received, with result

vars == <<remoteLog, remote, sentinel, pc, batch, idx, pending, queue, writer,
          store, lastPoll, routed, enqueued, handled>>

Terminated == pc \in {"err", "panic"}

\* ------------------------------------------------------- the store (SQL)
Ids(table) == { r.id : r \in table }

\* INSERT ... ON CONFLICT (id) DO UPDATE SET <every column> = <its parameter>
SubspaceOnConflictSlugFromTitle(old, new) ==
    [id |-> old.id, title |-> new.title, slug |-> new.title]

SubspaceOnConflict(old, new) ==
    [id |-> old.id, title |-> new.title, slug |-> new.slug]

ArticleOnConflict(old, new) ==
    [id |-> old.id, title |-> new.title, content |-> new.content,
     subspace_id |-> new.subspace_id]

CommentOnConflict(old, new) ==
    [id |-> old.id, content |-> new.content,
     author_nickname |-> new.author_nickname, post_id |-> new.post_id]

OnConflict(model, old, new) ==
    CASE model = "subspace" -> SubspaceOnConflict(old, new)
      [] model = "article" -> ArticleOnConflict(old, new)
      [] model = "comment" -> CommentOnConflict(old, new)

Upsert(table, row, model) ==
    IF row.id \in Ids(table)
    THEN { IF r.id = row.id THEN OnConflict(model, r, row) ELSE r : r \in table }
    ELSE table \cup {row}

ArticleFkOkUnchecked(db, row) == TRUE

\* FOREIGN KEY (subspace_id) REFERENCES subspaces(id)
ArticleFkOk(db, row) == row.subspace_id \in Ids(db.subspaces)
\* FOREIGN KEY (post_id) REFERENCES articles(id)
CommentFkOk(db, row) == row.post_id \in Ids(db.articles)

\* the three INSERT statements; a constraint violation leaves the table as is
ExecUpsert(db, model, row) ==
    CASE model = "subspace" ->
            [db |-> [db EXCEPT !.subspaces = Upsert(@, row, model)],
             result |-> "ok"]
      [] model = "article" ->
            IF ArticleFkOk(db, row)
            THEN [db |-> [db EXCEPT !.articles = Upsert(@, row, model)],
                  result |-> "ok"]
            ELSE [db |-> db, result |-> "err"]
      [] model = "comment" ->
            IF CommentFkOk(db, row)
            THEN [db |-> [db EXCEPT !.comments = Upsert(@, row, model)],
                  result |-> "ok"]
            ELSE [db |-> db, result |-> "err"]

\* DELETE FROM <table_name> WHERE id = $1; a row still referenced by a child
\* row cannot be deleted (the foreign keys declare no ON DELETE action)
ExecDelete(db, table_name, id) ==
    CASE table_name = "subspaces" ->
            IF \E a \in db.articles : a.subspace_id = id
            THEN [db |-> db, result |-> "err"]
            ELSE [db |-> [db EXCEPT !.subspaces = { r \in @ : r.id # id }],
                  result |-> "ok"]
      [] table_name = "articles" ->
            IF \E c \in db.comments : c.post_id = id
            THEN [db |-> db, result |-> "err"]
            ELSE [db |-> [db EXCEPT !.articles = { r \in @ : r.id # id }],
                  result |-> "ok"]
      [] table_name = "comments" ->
            [db |-> [db EXCEPT !.comments = { r \in @ : r.id # id }],
             result |-> "ok"]

\* the parameter lists: every u64 field is bound `as i64`
RowOf(model, rec) ==
    CASE model = "subspace" ->
            [id |-> AsI64(rec.id), title |-> rec.title, slug |-> rec.slug]
      [] model = "article" ->
            [id |-> AsI64(rec.id), title |-> rec.title, content |-> rec.content,
             subspace_id |-> AsI64(rec.subspace_id)]
      [] model = "comment" ->
            [id |-> AsI64(rec.id), content |-> rec.content,
             author_nickname |-> rec.author_nickname,
             post_id |-> AsI64(rec.post_id)]

TableName(model) ==
    CASE model = "subspace" -> "subspaces"
      [] model = "article" -> "articles"
      [] model = "comment" -> "comments"
      [] OTHER -> "invalid"

\* result: "ok" (Ok(())), "err" (Err(e), logged by the caller) or "panic"
handle_database_operation(db, model, method, value) ==
    IF model \in Models /\ method \in {"Create", "Update"}
    THEN IF value.kind = "object"
         THEN ExecUpsert(db, model, RowOf(model, value.rec))
         ELSE [db |-> db, result |-> "err"]
    ELSE IF method = "Delete"
    THEN IF as_i64(value) = None
         THEN [db |-> db, result |-> "panic"]
         ELSE IF TableName(model) = "invalid"
              THEN [db |-> db, result |-> "err"]
              ELSE ExecDelete(db, TableName(model), as_i64(value).n)
    ELSE [db |-> db, result |-> "err"]

\* the stores a start can find: the tables outlive the process
\* (CREATE TABLE IF NOT EXISTS), and hold rows that satisfy the foreign keys
InitStores ==
    LET s1 == [id |-> 1, title |-> "t0", slug |-> "s0"]
        a1 == [id |-> 1, title |-> "t0", content |-> "c0", subspace_id |-> 1]
        c1 == [id |-> 1, content |-> "c0", author_nickname |-> "n0", post_id |-> 1]
    IN  { [subspaces |-> {}, articles |-> {}, comments |-> {}],
          [subspaces |-> {s1}, articles |-> {a1}, comments |-> {c1}] }

\* ------------------------------------------------------------------- Init
Init ==
    /\ remoteLog = <<>>
    /\ remote = [m \in Models |-> {}]
    /\ sentinel = 0
    /\ pc = "poll"
    /\ batch = <<>>
    /\ idx = 1
    /\ pending = None
    /\ queue = <<>>
    /\ writer = "running"
    /\ store \in InitStores
    /\ lastPoll = [cursor |-> 0, resp |-> "none", maxCursor |-> 0]
    /\ routed = <<>>
    /\ enqueued = <<>>
    /\ handled = <<>>

\* ------------------------------------------------------ the remote source
\* A change at the remote source: the record is written or removed and the
\* change is logged under the next sequence number.  The surrogate observes
\* the remote source only through its poll and fetch requests, so a change is
\* taken right before one of them.
RemoteChange(method, key) ==
    /\ pc \in {"poll", "route"}
    /\ Len(remoteLog) < MaxLog
    /\ remoteLog' = Append(remoteLog,
           [reqnum |-> Len(remoteLog) + 1, method |-> method, key |-> key])
    /\ IF KeySpace(key) \in Models
       THEN LET m == KeySpace(key)
                id == from_be_bytes(SubSeq(key, PrefixLen + 1, Len(key)))
                others == { r \in remote[m] : r.id # id }
            IN  IF method = "Delete"
                THEN remote' = [remote EXCEPT ![m] = others]
                ELSE \E rec \in RecordsOf(m, id) :
                        remote' = [remote EXCEPT ![m] = others \cup {rec}]
       ELSE remote' = remote
    /\ UNCHANGED <<sentinel, pc, batch, idx, pending, queue, writer, store,
                   lastPoll, routed, enqueued, handled>>

\* get_from_common_key: every entry after the cursor, in sequence order
RemoteAnswer(cursor) == SelectSeq(remoteLog, LAMBDA e : e.reqnum > cursor)

\* get_subspace / get_article / get_comment
FetchResponses(model, id) ==
    { [kind |-> k] : k \in FetchFailures \cup {"err_result"} }
    \cup (IF \E r \in remote[model] : r.id = id
          THEN { [kind |-> "some", rec |-> r] : r \in { x \in remote[model] : x.id = id } }
          ELSE { [kind |-> "not_found"] })

\* ------------------------------------------------------------ the poller
\* request(...).await? / as_str().expect / hex::decode().expect /
\* decode().unwrap() / res?
PollExitIgnoreErrResult(resp) ==
    CASE resp = "ok" -> "none"
      [] resp = "transport" -> "err"
      [] resp = "err_result" -> "none"
      [] OTHER -> "panic"

PollExit(resp) ==
    CASE resp = "ok" -> "none"
      [] resp \in {"transport", "err_result"} -> "err"
      [] OTHER -> "panic"

\* hex::encode(sentinel.encode()): the cursor a poll request carries
RequestCursorZero(s) == 0

RequestCursor(s) == s

Poll(resp) ==
    /\ pc = "poll"
    /\ lastPoll' = [cursor |-> RequestCursor(sentinel), resp |-> resp,
                    maxCursor |-> Max(lastPoll.maxCursor, RequestCursor(sentinel))]
    /\ IF PollExit(resp) = "none"
       THEN /\ batch' = (IF resp = "ok" THEN RemoteAnswer(RequestCursor(sentinel))
                         ELSE <<>>)
            /\ idx' = 1
            /\ pc' = IF batch' = <<>> THEN "sleep" ELSE "route"
       ELSE /\ pc' = PollExit(resp)
            /\ UNCHANGED <<batch, idx>>
    /\ UNCHANGED <<remoteLog, remote, sentinel, pending, queue, writer, store,
                   routed, enqueued, handled>>

\* sentinel = reqnum
NextSentinelFromKey(entry) == KeyId(entry.key)

NextSentinel(entry) == entry.reqnum

\* the end of one turn of the for loop
AfterEntryFirstReqnum(entry) ==
    /\ sentinel' = batch[1].reqnum
    /\ IF idx = Len(batch)
       THEN pc' = "sleep" /\ idx' = idx
       ELSE pc' = "route" /\ idx' = idx + 1

AfterEntry(entry) ==
    /\ sentinel' = NextSentinel(entry)
    /\ IF idx = Len(batch)
       THEN pc' = "sleep" /\ idx' = idx
       ELSE pc' = "route" /\ idx' = idx + 1

\* request(...).await? / expect / expect / unwrap on a fetch response
FetchExit(resp) ==
    CASE resp.kind = "transport" -> "err"
      [] resp.kind \in {"not_str", "bad_hex", "bad_envelope"} -> "panic"
      [] OTHER -> "none"

DefaultRecord(model, id) == CHOOSE r \in RecordsOf(model, id) : TRUE

\* if let Ok(Some(x)) = result { to_value(&x) ... }
FetchItemOrDefault(model, method, id, resp) ==
    IF resp.kind = "some"
    THEN [model |-> model, method |-> method, value |-> to_value_record(resp.rec)]
    ELSE [model |-> model, method |-> method,
          value |-> to_value_record(DefaultRecord(model, id))]

FetchItem(model, method, id, resp) ==
    IF resp.kind = "some"
    THEN [model |-> model, method |-> method, value |-> to_value_record(resp.rec)]
    ELSE None

DeleteItem(model, method, id) ==
    [model |-> model, method |-> method, value |-> to_value_id(id)]

Routed(entry, fetch, outcome) ==
    [reqnum |-> entry.reqnum, method |-> entry.method, key |-> entry.key,
     fetch |-> fetch, outcome |-> outcome]

\* one entry of `for (reqnum, method, key) in res?`, up to its tx.send
Route ==
    /\ pc = "route"
    /\ LET entry == batch[idx]
           key == entry.key
       IN  IF Len(key) < PrefixLen
           THEN \* &key[..5] is out of range
                /\ pc' = "panic"
                /\ routed' = Append(routed, Routed(entry, "none", "panic"))
                /\ UNCHANGED <<sentinel, idx, pending>>
           ELSE IF Classify(key) = "none"
           THEN /\ routed' = Append(routed, Routed(entry, "none", "dropped"))
                /\ AfterEntry(entry)
                /\ UNCHANGED pending
           ELSE IF entry.method = "Delete"
           THEN /\ pending' = DeleteItem(Classify(key), entry.method, KeyId(key))
                /\ pc' = "send"
                /\ routed' = Append(routed, Routed(entry, "none", "item"))
                /\ UNCHANGED <<sentinel, idx>>
           ELSE \E resp \in FetchResponses(Classify(key), KeyId(key)) :
                  LET item == FetchItem(Classify(key), entry.method, KeyId(key), resp)
                  IN  IF FetchExit(resp) # "none"
                      THEN /\ pc' = FetchExit(resp)
                           /\ routed' = Append(routed,
                                  Routed(entry, resp.kind, FetchExit(resp)))
                           /\ UNCHANGED <<sentinel, idx, pending>>
                      ELSE IF item = None
                      THEN /\ routed' = Append(routed,
                                  Routed(entry, resp.kind, "skipped"))
                           /\ AfterEntry(entry)
                           /\ UNCHANGED pending
                      ELSE /\ pending' = item
                           /\ pc' = "send"
                           /\ routed' = Append(routed,
                                  Routed(entry, resp.kind, "item"))
                           /\ UNCHANGED <<sentinel, idx>>
    /\ UNCHANGED <<remoteLog, remote, batch, queue, writer, store, lastPoll,
                   enqueued, handled>>

\* mpsc::channel(100): send completes only while fewer than 100 items wait
ChannelHasRoomUnbounded(q) == TRUE

ChannelHasRoom(q) == Len(q) < ChannelCapacity

\* the receiver lives in the writer task and is dropped when the task ends
ReceiverAliveAlways(w) == TRUE

ReceiverAlive(w) == w = "running"

\* tx.send(item).await?: fails when the receiver is gone, waits while the
\* channel is full
Send ==
    /\ pc = "send"
    /\ IF ~ReceiverAlive(writer)
       THEN /\ pc' = "err"
            /\ UNCHANGED <<sentinel, idx, pending, queue, enqueued>>
       ELSE /\ ChannelHasRoom(queue)
            /\ queue' = Append(queue, pending)
            /\ enqueued' = Append(enqueued,
                   [reqnum |-> batch[idx].reqnum, item |-> pending])
            /\ pending' = None
            /\ AfterEntry(batch[idx])
    /\ UNCHANGED <<remoteLog, remote, batch, writer, store, lastPoll, routed, handled>>

\* sleep(Duration::from_secs(5)).await
Sleep ==
    /\ pc = "sleep"
    /\ pc' = "poll"
    /\ UNCHANGED <<remoteLog, remote, sentinel, batch, idx, pending, queue,
                   writer, store, lastPoll, routed, enqueued, handled>>

\* ------------------------------------------------------------ the writer
\* while let Some(item) = rx.recv().await { if let Err(e) = handle(..) {log} }
\* The task lives as long as the process; a panic inside it ends the task.
\* rx.recv(): the oldest item in the channel
NextItemNewest(q) == q[Len(q)]

NextItem(q) == Head(q)

WriterRecv ==
    /\ ~Terminated
    /\ writer = "running"
    /\ queue # <<>>
    /\ LET item == NextItem(queue)
           r == handle_database_operation(store, item.model, item.method, item.value)
       IN  /\ store' = r.db
           /\ writer' = IF r.result = "panic" THEN "panicked" ELSE "running"
           /\ handled' = Append(handled,
                  [item |-> item, result |-> r.result, before |-> store, after |-> r.db])
    /\ queue' = Tail(queue)
    /\ UNCHANGED <<remoteLog, remote, sentinel, pc, batch, idx, pending, lastPoll,
                   routed, enqueued>>

Next ==
    \/ \E method \in Method, key \in Keys : RemoteChange(method, key)
    \/ \E resp \in PollResponses : Poll(resp)
    \/ Route
    \/ Send
    \/ Sleep
    \/ WriterRecv

Spec == Init /\ [][Next]_vars

\* ------------------------------------------------------ the writer alone
\* The writer task with the same item waiting twice in the channel, for every
\* item the poller can build and every store that satisfies the constraints
\* of the schema.
StoreIds == {1, AsI64(U64Max)}
SubspaceRows == { [id |-> i, title |-> "t0", slug |-> "s0"] : i \in StoreIds }
ArticleRows ==
    { [id |-> i, title |-> "t0", content |-> "c0", subspace_id |-> p] :
        i \in {1}, p \in StoreIds }
CommentRows ==
    { [id |-> i, content |-> "c0", author_nickname |-> "n0", post_id |-> p] :
        i \in {1}, p \in {1} }

PrimaryKeyOk(table) == \A r1, r2 \in table : r1.id = r2.id => r1 = r2

ConsistentStores ==
    { db \in [subspaces : SUBSET SubspaceRows, articles : SUBSET ArticleRows,
              comments : SUBSET CommentRows] :
        /\ PrimaryKeyOk(db.subspaces)
        /\ PrimaryKeyOk(db.articles)
        /\ PrimaryKeyOk(db.comments)
        /\ \A a \in db.articles : ArticleFkOk(db, a)
        /\ \A c \in db.comments : CommentFkOk(db, c) }

ItemIds == {1, 2, U64Max}
ItemRecords(model) ==
    CASE model = "subspace" ->
            { [id |-> i, title |-> "t1", slug |-> "s1"] : i \in ItemIds }
      [] model = "article" ->
            { [id |-> i, title |-> "t1", content |-> "c1", subspace_id |-> p] :
                i \in ItemIds, p \in ItemIds }
      [] model = "comment" ->
            { [id |-> i, content |-> "c1", author_nickname |-> "n1", post_id |-> p] :
                i \in ItemIds, p \in ItemIds }

WriterItems ==
    UNION { { FetchItem(m, me, rec.id, [kind |-> "some", rec |-> rec]) :
                me \in {"Create", "Update"}, rec \in ItemRecords(m) }
            \cup { DeleteItem(m, "Delete", i) : i \in ItemIds } :
            m \in Models }

InitWriter ==
    /\ remoteLog = <<>>
    /\ remote = [m \in Models |-> {}]
    /\ sentinel = 0
    /\ pc = "sleep"
    /\ batch = <<>>
    /\ idx = 1
    /\ pending = None
    /\ \E item \in WriterItems : queue = <<item, item>>
    /\ writer = "running"
    /\ store \in ConsistentStores
    /\ lastPoll = [cursor |-> 0, resp |-> "ok", maxCursor |-> 0]
    /\ routed = <<>>
    /\ enqueued = <<>>
    /\ handled = <<>>

NextWriter == WriterRecv

SpecWriter == InitWriter /\ [][NextWriter]_vars

\* ------------------------------------------------- a backlog at the start
\* The cursor is not durable: a start finds the whole change log of the
\* remote source ahead of it.  Here the log holds more entries than the
\* channel has places, each of them a Delete, which needs no fetch.
BacklogLen == ChannelCapacity + 2

BacklogEntry(i) ==
    [reqnum |-> i, method |-> "Delete", key |-> PREFIX_COMMENT_KEY \o Suffix(1)]

InitBacklog ==
    /\ remoteLog = [i \in 1..BacklogLen |-> BacklogEntry(i)]
    /\ remote = [m \in Models |-> {}]
    /\ sentinel = 0
    /\ pc = "poll"
    /\ batch = <<>>
    /\ idx = 1
    /\ pending = None
    /\ queue = <<>>
    /\ writer = "running"
    /\ store = [subspaces |-> {}, articles |-> {}, comments |-> {}]
    /\ lastPoll = [cursor |-> 0, resp |-> "none", maxCursor |-> 0]
    /\ routed = <<>>
    /\ enqueued = <<>>
    /\ handled = <<>>

NextBacklog ==
    \/ Poll("ok")
    \/ Route
    \/ Send
    \/ Sleep
    \/ WriterRecv

SpecBacklog == InitBacklog /\ [][NextBacklog]_vars

\* ------------------------------------------------ keys of every length
\* A start that finds one Delete entry in the change log, its key a known
\* prefix followed by any suffix of up to MaxSuffixLen bytes.
Suffixes == UNION { [1..k -> 0..(ByteBase - 1)] : k \in 0..MaxSuffixLen }

KnownPrefixes == {PREFIX_SUBSPACE_KEY, PREFIX_ARTICLE_KEY, PREFIX_COMMENT_KEY}

InitDecode ==
    /\ \E p \in KnownPrefixes, suf \in Suffixes :
          remoteLog = <<[reqnum |-> 1, method |-> "Delete", key |-> p \o suf]>>
    /\ remote = [m \in Models |-> {}]
    /\ sentinel = 0
    /\ pc = "poll"
    /\ batch = <<>>
    /\ idx = 1
    /\ pending = None
    /\ queue = <<>>
    /\ writer = "running"
    /\ store = [subspaces |-> {}, articles |-> {}, comments |-> {}]
    /\ lastPoll = [cursor |-> 0, resp |-> "none", maxCursor |-> 0]
    /\ routed = <<>>
    /\ enqueued = <<>>
    /\ handled = <<>>

SpecDecode == InitDecode /\ [][NextBacklog]_vars

\* ------------------------------------------- a start on an empty store
\* The first start: the tables have just been created and the change log of
\* the remote source is read from its beginning.
InitSync ==
    /\ Init
    /\ store = [subspaces |-> {}, articles |-> {}, comments |-> {}]

SpecSync == InitSync /\ [][Next]_vars

\* ---------------------------------------------------------------- claims
HasKnownPrefix(key) == KeySpace(key) \in Models

RoutedSet == { routed[i] : i \in 1..Len(routed) }
EnqueuedSet == { enqueued[i] : i \in 1..Len(enqueued) }
LogSet == { remoteLog[i] : i \in 1..Len(remoteLog) }
LastRouted == routed[Len(routed)]

\* C1: an entry whose key starts with none of the three known prefixes is
\* never fetched and never enqueued, whatever its method, and every item the
\* writer handles is an item enqueued for an entry with a known prefix.
NoItemForUnknownPrefix ==
    /\ \A e \in LogSet :
          ~HasKnownPrefix(e.key) =>
             /\ \A r \in RoutedSet : r.reqnum = e.reqnum => r.fetch = "none"
             /\ \A q \in EnqueuedSet : q.reqnum # e.reqnum
             /\ pc = "send" => batch[idx].reqnum # e.reqnum
    /\ Len(handled) <= Len(enqueued)
    /\ \A i \in 1..Len(handled) : handled[i].item = enqueued[i].item

\* an entry of an unknown key space was dropped and the writer has handled the
\* item of a later entry
UnknownPrefixDropped ==
    /\ Len(routed) = 2
    /\ ~HasKnownPrefix(routed[1].key)
    /\ Len(routed[1].key) >= PrefixLen
    /\ Len(handled) = 1

\* C2: the cursor sent by a poll request is never smaller than a cursor sent
\* by an earlier poll request: the latest one sent is the greatest one sent.
CursorNonDecreasing == lastPoll.cursor = lastPoll.maxCursor

\* a poll request has sent a cursor greater than the first one
CursorAdvancedBetweenPolls ==
    /\ lastPoll.resp = "ok"
    /\ lastPoll.cursor > 1

MaxReqnum(entries) ==
    CHOOSE m \in { entries[i].reqnum : i \in 1..Len(entries) } :
        \A i \in 1..Len(entries) : entries[i].reqnum <= m

\* C3: when a cycle that returned at least one entry has completed, the
\* cursor is the greatest sequence number of the entries of that cycle, also
\* when entries of the cycle produced no item.
CursorIsMaxOfCycle ==
    (pc = "sleep" /\ batch # <<>>) => sentinel = MaxReqnum(batch)

\* a cycle of two entries has completed and its last entry produced no item
CycleEndedOnEntryWithoutItem ==
    /\ pc = "sleep"
    /\ Len(batch) = 2
    /\ LastRouted.reqnum = batch[2].reqnum
    /\ LastRouted.outcome \in {"dropped", "skipped"}

\* C4: when the writer handles the same create/update item twice in a row,
\* the second handling leaves the store as the first one left it, whether or
\* not the id had a row before the first.
UpsertIdempotent ==
    \A i \in 1..(Len(handled) - 1) :
        (/\ handled[i].item = handled[i + 1].item
         /\ handled[i].item.method \in {"Create", "Update"})
        => handled[i + 1].after = handled[i].after

\* the writer has handled the same upsert item twice in a row, and the first
\* handling changed a row that was there before
SameUpsertHandledTwice ==
    /\ Len(handled) = 2
    /\ handled[1].item = handled[2].item
    /\ handled[1].item.method \in {"Create", "Update"}
    /\ handled[1].item.model = "subspace"
    /\ handled[1].before.subspaces # {}
    /\ handled[1].after # handled[1].before
    /\ handled[2].result = "ok"

TableOf(db, model) ==
    CASE model = "subspace" -> db.subspaces
      [] model = "article" -> db.articles
      [] model = "comment" -> db.comments

\* C5: a Delete item for an id that has no row in the table of its model
\* succeeds and leaves the store unchanged.
DeleteMissingSucceeds ==
    \A i \in 1..Len(handled) :
        LET h == handled[i]
        IN  (/\ h.item.method = "Delete"
             /\ \A r \in TableOf(h.before, h.item.model) : r.id # h.item.value.n)
            => (h.result = "ok" /\ h.after = h.before)

\* C6: a create/update item is enqueued only for an entry whose fetch
\* returned a record; after a 'not found' answer no item is enqueued for the
\* entry and the poller has gone on past it.
ItemOnlyForFetchedRecord ==
    /\ \A q \in EnqueuedSet :
          q.item.method \in {"Create", "Update"} =>
             /\ q.item.value.kind = "object"
             /\ \E r \in RoutedSet : r.reqnum = q.reqnum /\ r.fetch = "some"
    /\ \A r \in RoutedSet :
          r.fetch = "not_found" =>
             /\ r.outcome = "skipped"
             /\ \A q \in EnqueuedSet : q.reqnum # r.reqnum
             /\ sentinel >= r.reqnum
    /\ (pc = "send" /\ pending.method \in {"Create", "Update"}) =>
          LastRouted.fetch = "some"

\* a fetch answered 'not found' and the poller has routed the next entry
NotFoundThenNextEntry ==
    /\ Len(routed) = 2
    /\ routed[1].fetch = "not_found"
    /\ routed[2].reqnum > routed[1].reqnum
    /\ ~Terminated

\* C7: no item the poller can enqueue stops the writer: a failure is logged
\* and the writer handles the next item.
WriterNeverStops ==
    /\ writer = "running"
    /\ \A i \in 1..Len(handled) : handled[i].result \in {"ok", "err"}

\* C8: a failed change-log query ends the poller and the process: the
\* poller is terminated right after it, and from then on nothing is polled,
\* fetched, enqueued or handled.
PollFailureIsFatal ==
    [][ /\ lastPoll'.resp \in PollFailures => Terminated'
        /\ (Terminated /\ lastPoll.resp \in PollFailures) =>
              UNCHANGED <<sentinel, pc, batch, idx, pending, queue, writer, store,
                          lastPoll, routed, enqueued, handled>> ]_vars

\* the change-log query returned an error result while an item was in flight
PollFailedWithItemInFlight ==
    /\ Terminated
    /\ lastPoll.resp = "err_result"
    /\ queue # <<>>

\* C9: an error result of a per-entity fetch terminates the poller.
FetchErrResultIsFatal ==
    \A r \in RoutedSet : r.fetch = "err_result" => Terminated

\* C10: an entry whose key starts with none of the known prefixes, of any
\* length, is dropped and the poller goes on.
UnknownPrefixNeverFatal ==
    \A r \in RoutedSet : ~HasKnownPrefix(r.key) => r.outcome = "dropped"

\* C11: the channel never holds more than 100 items, and while it holds 100
\* the poller stays in its send with its item: nothing is added, and the
\* channel changes only by the writer taking the oldest item.
QueueNeverExceedsCapacity ==
    /\ [](Len(queue) <= ChannelCapacity)
    /\ [][ (Len(queue) = ChannelCapacity /\ pc = "send") =>
             /\ pc' = "send"
             /\ pending' = pending
             /\ enqueued' = enqueued
             /\ sentinel' = sentinel
             /\ queue' = queue \/ queue' = Tail(queue) ]_vars

\* the channel is full and the poller waits in its send with the next item
PollerBlockedOnFullQueue ==
    /\ Len(queue) = ChannelCapacity
    /\ pc = "send"
    /\ pending # None
    /\ writer = "running"

\* C12: the items the writer has handled are, in order, the first items the
\* poller has enqueued; the items waiting in the channel are the following
\* ones, in order, each exactly once; and the poller has enqueued them in the
\* order of the sequence numbers of their entries.
FifoSingleTransfer ==
    /\ Len(handled) + Len(queue) = Len(enqueued)
    /\ \A i \in 1..Len(handled) : handled[i].item = enqueued[i].item
    /\ \A i \in 1..Len(queue) : queue[i] = enqueued[Len(handled) + i].item
    /\ \A i, j \in 1..Len(enqueued) :
          i < j => enqueued[i].reqnum < enqueued[j].reqnum

\* the writer has handled two different items, the item of the first entry
\* first
TwoItemsHandledInOrder ==
    /\ Len(handled) = 2
    /\ handled[1].item # handled[2].item
    /\ enqueued[1].reqnum = 1
    /\ enqueued[2].reqnum = 2

\* every table holds exactly the rows of the records the remote source holds
StoreMatchesRemote ==
    \A m \in Models : TableOf(store, m) = { RowOf(m, rec) : rec \in remote[m] }

\* the poller has consumed the whole change log without a fatal error and
\* the writer has nothing left to handle: unless the remote source changes
\* again, no step changes the store from here on
Settled ==
    /\ ~Terminated
    /\ pc \in {"sleep", "poll"}
    /\ sentinel = Len(remoteLog)
    /\ queue = <<>>

\* C13: once the remote source has stopped changing and no fatal poller error
\* has occurred, the store comes to hold exactly the records of the remote
\* source: when the whole change log is consumed and nothing is left in the
\* channel, the store matches the remote source.
StoreConsistentWhenSettled == Settled => StoreMatchesRemote

\* C14: after the writer has handled a Delete item for a model and an id n,
\* in any store state, the table of the model holds no row of id n (the row
\* id is the i64 the upsert stored for n).
DeleteRemovesRow ==
    \A i \in 1..Len(handled) :
        LET h == handled[i] IN
        (h.item.method = "Delete" /\ h.item.model \in Models) =>
            AsI64(h.item.value.n) \notin Ids(TableOf(h.after, h.item.model))

\* the handled item is an upsert of a child whose parent row is missing
ParentMissing(h) ==
    /\ h.item.method \in {"Create", "Update"}
    /\ h.item.value.kind = "object"
    /\ \/ /\ h.item.model = "article"
          /\ AsI64(h.item.value.rec.subspace_id) \notin Ids(h.before.subspaces)
       \/ /\ h.item.model = "comment"
          /\ AsI64(h.item.value.rec.post_id) \notin Ids(h.before.articles)

\* C15: an Article upsert whose subspace_id has no row in subspaces, or a
\* Comment upsert whose post_id has no row in articles, fails and leaves the
\* store unchanged; the writer keeps running; the item was enqueued once, for
\* one change entry, and is never enqueued again.
ChildBeforeParentDropped ==
    /\ [](\A i \in 1..Len(handled) :
            ParentMissing(handled[i]) =>
                /\ handled[i].result = "err"
                /\ handled[i].after = handled[i].before
                /\ \A j \in 1..Len(enqueued) :
                      j # i => enqueued[j].reqnum # enqueued[i].reqnum)
    /\ [][ (Len(handled') = Len(handled) + 1
             /\ ParentMissing(handled'[Len(handled')])) =>
               /\ writer' = "running"
               /\ store' = store
               /\ enqueued' = enqueued
               /\ pending' = pending ]_vars

\* an article was dropped for its missing subspace, the subspace was written
\* after it, the whole log is consumed, and the article is still missing
ArticleDroppedThenParentWritten ==
    /\ Len(handled) = 2
    /\ ParentMissing(handled[1]) /\ handled[1].item.model = "article"
    /\ handled[1].result = "err"
    /\ handled[2].item.model = "subspace" /\ handled[2].result = "ok"
    /\ AsI64(handled[1].item.value.rec.subspace_id) \in Ids(store.subspaces)
    /\ store.articles = {}
    /\ sentinel = 2 /\ pc = "poll" /\ queue = <<>>

\* the value of a byte string read as a big-endian number
RECURSIVE BigEndianValue(_)
BigEndianValue(bytes) ==
    IF bytes = <<>> THEN 0
    ELSE bytes[1] * ByteBase ^ (Len(bytes) - 1) + BigEndianValue(Tail(bytes))

\* the bytes of a key after its prefix
SuffixOf(key) == SubSeq(key, PrefixLen + 1, Len(key))

\* the id the claim assigns to a key suffix
ExpectedId(suf) ==
    IF Len(suf) >= IdBytes
    THEN BigEndianValue(SubSeq(suf, 1, IdBytes))
    ELSE BigEndianValue(suf \o [i \in 1..(IdBytes - Len(suf)) |-> 0])

\* C16: the id decoded from a key is the big-endian value of the first 8
\* bytes of its suffix, later bytes ignored; a suffix of k < 8 bytes is
\* followed by 8-k zero bytes; the id fits in 64 bits and decoding never
\* fails: every routed Delete entry yields an item carrying that id.
KeyDecoding ==
    /\ \A i \in 1..Len(routed) :
          /\ routed[i].outcome = "item"
          /\ routed[i].fetch = "none"
    /\ pending # None =>
          /\ pending.value = to_value_id(ExpectedId(SuffixOf(batch[idx].key)))
          /\ pending.value.n \in 0..U64Max
    /\ \A i \in 1..Len(enqueued) :
          LET suf == SuffixOf(remoteLog[enqueued[i].reqnum].key) IN
          /\ enqueued[i].item.value = to_value_id(ExpectedId(suf))
          /\ enqueued[i].item.value.n \in 0..U64Max

\* a 3-byte suffix was decoded to a non-zero id and the item was enqueued
ShortSuffixDecoded ==
    /\ Len(enqueued) = 1
    /\ SuffixOf(remoteLog[1].key) = <<0, 1, 1>>
    /\ enqueued[1].item.value.n = (ByteBase + 1) * ByteBase ^ (IdBytes - 3)

\* C17: a Delete entry with a known prefix is routed without a fetch and
\* enqueued once, and the id the writer binds in its DELETE statement is the
\* id n decoded from the key, for every unsigned 64-bit n.
DeleteIdReachesStatement ==
    /\ \A i \in 1..Len(routed) :
          routed[i].method = "Delete" => routed[i].fetch = "none"
    /\ \A i, j \in 1..Len(enqueued) :
          enqueued[i].reqnum = enqueued[j].reqnum => i = j
    /\ \A i \in 1..Len(handled) :
          handled[i].item.method = "Delete" =>
              as_i64(handled[i].item.value) =
                  [kind |-> "some",
                   n |-> KeyId(remoteLog[enqueued[i].reqnum].key)]

\* C18: as long as the poller has not terminated fatally, every enqueued item
\* is eventually handled by the writer: an item that is enqueued and not yet
\* handled always has a running writer to take it.
EnqueuedItemHasLiveWriter ==
    (~Terminated /\ Len(handled) < Len(enqueued)) => writer = "running"

\* C19: with a remote source that answers each poll with the entries above
\* the requested cursor in increasing order, no entry is routed twice, every
\* entry up to the cursor has been routed (with a fetch if it is a Create or
\* Update of a known prefix), and after a completed cycle no entry above the
\* cursor has been routed.
NoEntryRoutedTwiceOrSkipped ==
    /\ \A i, j \in 1..Len(routed) :
          routed[i].reqnum = routed[j].reqnum => i = j
    /\ \A k \in 1..Len(remoteLog) :
          remoteLog[k].reqnum <= sentinel =>
              \E i \in 1..Len(routed) :
                  /\ routed[i].reqnum = remoteLog[k].reqnum
                  /\ routed[i].key = remoteLog[k].key
                  /\ routed[i].method = remoteLog[k].method
                  /\ (HasKnownPrefix(routed[i].key) /\ routed[i].method # "Delete")
                        <=> routed[i].fetch # "none"
    /\ pc \in {"sleep", "poll"} =>
          \A i \in 1..Len(routed) : routed[i].reqnum <= sentinel

\* two cycles: the second asked from cursor 1 and routed entry 2 only
TwoCyclesEachEntryOnce ==
    /\ pc = "sleep"
    /\ sentinel = 2
    /\ lastPoll.cursor = 1
    /\ Len(routed) = 2
    /\ routed[1].reqnum = 1 /\ routed[2].reqnum = 2

\* C20: once the writer task has stopped nothing is enqueued any more; the
\* poller's next send fails and ends the poller without advancing the cursor;
\* after that there is no poll, no fetch, no enqueue and no cursor change.
NoEnqueueIntoDeadConsumer ==
    [][ /\ writer # "running" =>
              /\ queue' = queue
              /\ enqueued' = enqueued
              /\ writer' = writer
        /\ (writer # "running" /\ pc = "send") =>
              /\ pc' = "err"
              /\ sentinel' = sentinel
        /\ Terminated =>
              /\ pc' = pc
              /\ sentinel' = sentinel
              /\ lastPoll' = lastPoll
              /\ routed' = routed
              /\ enqueued' = enqueued ]_vars

\* the poller ended on a send to the stopped writer, the item still in hand
SendToStoppedWriterFailed ==
    /\ pc = "err"
    /\ writer = "panicked"
    /\ pending # None
    /\ Len(enqueued) = 1
    /\ Len(routed) = 2
    /\ sentinel = 1

====
